---------------------------- MODULE Spec2Model ----------------------------
(***************************************************************************)
(* Model of provision/docker/bs/bs.go: the configuration record of the bs  *)
(* ("big sibling") container, the environment it is started with, the      *)
(* token protocol of getToken, CreateContainer on one node and             *)
(* RecreateContainers on every node of the cluster.                        *)
(*                                                                         *)
(* A Go string is a finite sequence of pieces.  A piece is a TLA+ string   *)
(* standing for a run of characters (such as "TSURU_TOKEN"); a character   *)
(* the code searches a string for ('=' in an environment entry, '/' ':'    *)
(* '@' in an image reference or a URL) is always a piece of its own.       *)
(* Concatenation is \o and the empty string is <<>>.                       *)
(***************************************************************************)
EXTENDS Integers, Sequences, FiniteSets, TLC

(***************************************************************************)
(* Bounds of the model.                                                    *)
(***************************************************************************)
\* Global entries + pools + pool entries of a patch given to UpdateEnvMaps.
MaxPatchSize == 3

\* Nodes of the cluster: RecreateContainers runs one worker on each.
MaxNodes == 2

\* Calls of CreateContainer made besides those of RecreateContainers.
MaxDirect == 2

\* Calls of SaveEnvs and SaveImage made by the administrator.
MaxAdmin == 1

\* Pieces of an image reference given to shouldPinBsImage.
MaxRefLen == 9

\* Calls of planService.Create.
MaxPlanCalls == 2

(***************************************************************************)
(* Strings and maps.                                                       *)
(***************************************************************************)
Str(piece) == <<piece>>

EmptyStr == <<>>

EmptyMap == <<>>

\* delete(m, k)
MapDelete(m, k) == [x \in (DOMAIN m) \ {k} |-> m[x]]

\* m[k] = v
MapSet(m, k, v) == [x \in (DOMAIN m) \cup {k} |-> IF x = k THEN v ELSE m[x]]

\* strings.HasPrefix(s, prefix)
HasPrefix(s, prefix) ==
    /\ Len(s) >= Len(prefix)
    /\ SubSeq(s, 1, Len(prefix)) = prefix

\* strings.TrimRight(s, "/"): every trailing "/" is removed.
RECURSIVE TrimRightSlash(_)
TrimRightSlash(s) ==
    IF s # <<>> /\ s[Len(s)] = "/"
    THEN TrimRightSlash(SubSeq(s, 1, Len(s) - 1))
    ELSE s

\* All the orders in which a Go range statement may visit the keys of a map.
RECURSIVE Orders(_)
Orders(S) ==
    IF S = {} THEN {<<>>}
    ELSE UNION {{<<k>> \o o : o \in Orders(S \ {k})} : k \in S}

(***************************************************************************)
(* UpdateEnvMaps (bs.go 64-97).                                            *)
(***************************************************************************)
NoErr == <<>>

forbiddenList ==
    {Str("DOCKER_ENDPOINT"), Str("TSURU_ENDPOINT"),
     Str("SYSLOG_LISTEN_ADDRESS"), Str("TSURU_TOKEN")}

\* fmt.Errorf("cannot set %s variable", env.Name)
ErrCannotSet(name) == <<"cannot set ">> \o name \o <<" variable">>

\* A variant that sets the key whatever the value.
ApplyEnvBlind(m, env) == MapSet(m, env.Name, env.Value)

\* The body of both loops: an empty value deletes the key, another sets it.
ApplyEnv(m, env) ==
    IF env.Value = EmptyStr
    THEN MapDelete(m, env.Name)
    ELSE MapSet(m, env.Name, env.Value)

\* A variant whose list lacks TSURU_TOKEN.
IsForbiddenNoToken(name) == name \in forbiddenList \ {Str("TSURU_TOKEN")}

\* forbiddenList[env.Name]
IsForbidden(name) == name \in forbiddenList

\* One range loop over a list of Env, from index i, on the map m.
RECURSIVE ApplyEnvs(_, _, _)
ApplyEnvs(envs, i, m) ==
    IF i > Len(envs) THEN [err |-> NoErr, map |-> m]
    ELSE IF IsForbidden(envs[i].Name)
         THEN [err |-> ErrCannotSet(envs[i].Name), map |-> m]
         ELSE ApplyEnvs(envs, i + 1, ApplyEnv(m, envs[i]))

\* The loop over conf.Pools, from index j, on the map of maps pm.
RECURSIVE ApplyPools(_, _, _)
ApplyPools(pools, j, pm) ==
    IF j > Len(pools) THEN [err |-> NoErr, poolEnvMap |-> pm]
    ELSE LET p    == pools[j]
             made == IF p.Name \in DOMAIN pm THEN pm
                     ELSE MapSet(pm, p.Name, EmptyMap)
             r    == ApplyEnvs(p.Envs, 1, made[p.Name])
             next == MapSet(made, p.Name, r.map)
         IN  IF r.err # NoErr
             THEN [err |-> r.err, poolEnvMap |-> next]
             ELSE ApplyPools(pools, j + 1, next)

\* The error returned and the two maps as the call leaves them.
UpdateEnvMaps(conf, envMap, poolEnvMap) ==
    LET g == ApplyEnvs(conf.Envs, 1, envMap)
    IN  IF g.err # NoErr
        THEN [err |-> g.err, envMap |-> g.map, poolEnvMap |-> poolEnvMap]
        ELSE LET p == ApplyPools(conf.Pools, 1, poolEnvMap)
             IN  [err |-> p.err, envMap |-> g.map, poolEnvMap |-> p.poolEnvMap]

(***************************************************************************)
(* EnvListForEndpoint (bs.go 110-144), given what getToken returned.       *)
(***************************************************************************)
\* SysLogPort: the configured port, 1514 when none is configured.
SysLogPort(bsPort) == IF bsPort = 0 THEN 1514 ELSE bsPort

\* strconv.Itoa
Itoa(n) == Str(ToString(n))

\* fmt.Sprintf("%s=%s", envName, envValue)
FormatEnv(envName, envValue) == envName \o <<"=">> \o envValue

HttpScheme == <<"http", ":", "/", "/">>

HttpsScheme == <<"https", ":", "/", "/">>

TsuruEndpoint(host) ==
    LET withScheme ==
            IF ~HasPrefix(host, HttpScheme) /\ ~HasPrefix(host, HttpsScheme)
            THEN HttpScheme \o host
            ELSE host
    IN  TrimRightSlash(withScheme) \o Str("/")

DockerEndpointFor(dockerEndpoint, socket) ==
    IF socket # EmptyStr
    THEN <<"unix", ":", "/", "/", "/", "var", "/", "run", "/", "docker.sock">>
    ELSE dockerEndpoint

\* The entries the two range loops append, in each order the maps may be visited.
MapEntryLists(m) ==
    {[i \in 1..Len(o) |-> FormatEnv(o[i], m[o[i]])] : o \in Orders(DOMAIN m)}

\* Every result the call may return: tokenRes is getToken's (token, err),
\* cfg holds the values of "host", "docker:bs:socket", "docker:bs:syslog-port".
EnvListForEndpoint(conf, dockerEndpoint, poolName, tokenRes, cfg) ==
    IF tokenRes.err # NoErr THEN {[err |-> tokenRes.err, envList |-> <<>>]}
    ELSE LET envList ==
                 << <<"DOCKER_ENDPOINT", "=">> \o DockerEndpointFor(dockerEndpoint, cfg.socket),
                    <<"TSURU_ENDPOINT", "=">> \o TsuruEndpoint(cfg.host),
                    <<"TSURU_TOKEN", "=">> \o tokenRes.token,
                    <<"SYSLOG_LISTEN_ADDRESS", "=", "udp", ":", "/", "/", "0.0.0.0", ":">>
                        \o Itoa(SysLogPort(cfg.port)) >>
             u == UpdateEnvMaps(conf, EmptyMap, EmptyMap)
             poolMap == IF poolName \in DOMAIN u.poolEnvMap
                        THEN u.poolEnvMap[poolName] ELSE EmptyMap
         IN  IF u.err # NoErr THEN {[err |-> u.err, envList |-> <<>>]}
             ELSE {[err |-> NoErr, envList |-> envList \o g \o p] :
                       g \in MapEntryLists(u.envMap), p \in MapEntryLists(poolMap)}


(***************************************************************************)
(* The image reference (bs.go 99-108, 303-327).                            *)
(***************************************************************************)
RECURSIVE IndexOf(_, _, _)
\* The first index >= i of s holding the piece sep, 0 when there is none.
IndexOf(s, sep, i) ==
    IF i > Len(s) THEN 0
    ELSE IF s[i] = sep THEN i ELSE IndexOf(s, sep, i + 1)

RECURSIVE SplitNLast(_, _, _)
\* The last element of strings.SplitN(s, sep, n), n >= 1.
SplitNLast(s, sep, n) ==
    LET k == IndexOf(s, sep, 1)
    IN  IF n <= 1 \/ k = 0 THEN s
        ELSE SplitNLast(SubSeq(s, k + 1, Len(s)), sep, n - 1)

\* A variant that pins every reference.
shouldPinAlways(image) == TRUE

shouldPinBsImage(image) ==
    LET lastPart == SplitNLast(image, "/", 3)
    IN  IndexOf(lastPart, ":", 1) = 0

\* digestRegexp on one line of the pull output: "Digest: " and the rest.
IsDigestLine(line) == line # <<>> /\ line[1] = "Digest: "

RECURSIVE FirstDigest(_, _)
\* digestRegexp.FindAllStringSubmatch(out, 1): the index of the first line
\* that matches, 0 when no line does.
FirstDigest(out, i) ==
    IF i > Len(out) THEN 0
    ELSE IF IsDigestLine(out[i]) THEN i ELSE FirstDigest(out, i + 1)

\* The reference pullBsImage saves after a pull that printed out.
PinnedImage(image, out) ==
    LET m == FirstDigest(out, 1)
    IN  IF shouldPinBsImage(image) /\ m # 0
        THEN image \o <<"@">> \o Tail(out[m])
        ELSE image

DefaultImage == <<"tsuru", "/", "bs">>

getImage(c, bsImage) ==
    IF c.Image # EmptyStr THEN c.Image
    ELSE IF bsImage = EmptyStr THEN DefaultImage ELSE bsImage

(***************************************************************************)
(* The stored record (collection "bsconfig", _id "bs") and its writes.     *)
(***************************************************************************)
EmptyConfig == [Image |-> EmptyStr, Token |-> EmptyStr, Envs |-> <<>>, Pools |-> <<>>]

NoRecord == [exists |-> FALSE, doc |-> EmptyConfig]

ErrDup == Str("E11000 duplicate key")

\* A variant that selects by _id alone.
UpsertTokenAlways(rec, token) ==
    [err |-> NoErr, rec |-> [exists |-> TRUE, doc |-> [rec.doc EXCEPT !.Token = token]]]

\* getToken's coll.Upsert (bs.go 160-163): the selector matches a record
\* whose token is empty or missing; no match inserts _id "bs", which is a
\* duplicate key when the record exists.
UpsertToken(rec, token) ==
    IF rec.exists /\ rec.doc.Token # EmptyStr
    THEN [err |-> ErrDup, rec |-> rec]
    ELSE [err |-> NoErr,
          rec |-> [exists |-> TRUE, doc |-> [rec.doc EXCEPT !.Token = token]]]

\* A variant that writes the whole document instead of $set.
SaveImageReplace(rec, image) ==
    [exists |-> TRUE, doc |-> [EmptyConfig EXCEPT !.Image = image]]

\* SaveImage's UpsertId with $set image (bs.go 208).
SaveImageDoc(rec, image) ==
    [exists |-> TRUE, doc |-> [rec.doc EXCEPT !.Image = image]]

\* A variant that writes the whole document instead of $set.
SaveEnvsReplace(rec, c) ==
    [exists |-> TRUE, doc |-> [EmptyConfig EXCEPT !.Envs = c.Envs, !.Pools = c.Pools]]

\* SaveEnvs' UpsertId with $set envs, pools (bs.go 219).
SaveEnvsDoc(rec, c) ==
    [exists |-> TRUE, doc |-> [rec.doc EXCEPT !.Envs = c.Envs, !.Pools = c.Pools]]

\* bsConfigFromEnvMaps (bs.go 179-192): the lists in every order the range
\* statements may produce.
EnvListsOf(m) ==
    {[i \in 1..Len(o) |-> [Name |-> o[i], Value |-> m[o[i]]]] : o \in Orders(DOMAIN m)}

RECURSIVE PoolListsOf(_, _)
PoolListsOf(pm, o) ==
    IF o = <<>> THEN {<<>>}
    ELSE {<<[Name |-> Head(o), Envs |-> e]>> \o rest :
              e \in EnvListsOf(pm[Head(o)]), rest \in PoolListsOf(pm, Tail(o))}

bsConfigFromEnvMaps(envMap, poolEnvMap) ==
    {[EmptyConfig EXCEPT !.Envs = e, !.Pools = p] :
         e \in EnvListsOf(envMap),
         p \in UNION {PoolListsOf(poolEnvMap, o) : o \in Orders(DOMAIN poolEnvMap)}}


(***************************************************************************)
(* The state.                                                              *)
(***************************************************************************)
VARIABLES
    config,     \* the values of tsuru's configuration file
    store,      \* the stored record: [exists, doc]
    issued,     \* the number of tokens AppLogin has issued
    loggedOut,  \* the tokens given to Logout
    cont,       \* per node, the container named "big-sibling"
    call,       \* per call of CreateContainer: where it is, its arguments,
                \* its local variables, the error it returned and the
                \* requests it made to the docker client
    rc,         \* the call of RecreateContainers
    admin,      \* the number of administrator calls made
    uPc,        \* the last call made on given arguments: "input" or "none"
                \* before it, then "updated", "listed", "decided", "pulled"
                \* or "created"
    uConf,      \* the patch (a Config with Envs and Pools)
    uIn,        \* the arguments of that call
    uOut,       \* what that call returned
    planStore   \* the plan storage: the calls of Create made and the plans
                \* given to Insert

envVars == <<uPc, uConf, uIn, uOut, planStore>>

vars == <<config, store, issued, loggedOut, cont, call, rc, admin,
          uPc, uConf, uIn, uOut, planStore>>

Nodes == 1..MaxNodes

Workers == 1..MaxNodes

Direct == (MaxNodes + 1)..(MaxNodes + MaxDirect)

Tasks == Workers \cup Direct

\* node.Address
NodeAddress(n) == <<"node", ToString(n)>>

\* node.Metadata["pool"] of the nodes of the model's cluster.
PoolOf(n) == IF n % 2 = 1 THEN "p1" ELSE "p2"

\* tokenData.GetValue() of the k-th token AppLogin issues.
TokenValue(k) == Str(ToString(k))

ErrNewClient == Str("invalid endpoint")
ErrStorage == Str("storage error")
ErrLogin == Str("login failed")
ErrPull == Str("pull failed")
ErrContainerAlreadyExists == Str("container already exists")
ErrCreate == Str("create failed")
ErrRemove == Str("remove failed")
ErrNoSuchContainer == Str("no such container")
ErrStart == Str("start failed")
ErrNodes == Str("cannot list nodes")

NoContainer == [present |-> FALSE, id |-> 0, running |-> FALSE]

\* A container some earlier deployment left running (id 0).
OldContainer == [present |-> TRUE, id |-> 0, running |-> TRUE]

NoArg == [node |-> 1, pool |-> "p1", relaunch |-> FALSE, envOnly |-> FALSE]

\* A call not made yet.  conf is bsConf, img is bsImage, tok the token
\* AppLogin returned, err getToken's err after the Upsert, env the list
\* EnvListForEndpoint returned, res the error the call returned.
IdleCall ==
    [pc |-> "idle", arg |-> NoArg, conf |-> EmptyConfig, img |-> EmptyStr,
     tok |-> EmptyStr, err |-> NoErr, env |-> <<>>, res |-> NoErr, ops |-> <<>>]

OffRc == [pc |-> "off", nodes |-> <<>>, i |-> 1, wg |-> 0, errChan |-> <<>>,
          closed |-> FALSE, ret |-> NoErr]

IdleRc == [pc |-> "idle", nodes |-> <<>>, i |-> 1, wg |-> 0, errChan |-> <<>>,
           closed |-> FALSE, ret |-> NoErr]

\* The configuration file the deployments of the model run with.
MainConfig ==
    [host |-> Str("tsuru.example"), socket |-> EmptyStr, port |-> 0, bsImage |-> EmptyStr]

\* What a pull may print: no digest, or two different ones.
DigestLine(d) == <<"Digest: ", "sha256", ":", d>>

PullOutputs ==
    { <<Str("Pulling")>>,
      <<Str("Pulling"), DigestLine("d2"), DigestLine("d1")>> }

\* The maps the administrator may give to SaveEnvs.
AdminEnvMaps ==
    { MapSet(EmptyMap, Str("A"), Str("x")),
      MapSet(EmptyMap, Str("TSURU_TOKEN"), Str("x")) }

AdminPoolEnvMaps == { EmptyMap }

AdminImages == { <<"tsuru", "/", "bs", ":", "v2">> }

InitMain ==
    /\ config = MainConfig
    /\ store = NoRecord
    /\ issued = 0
    /\ loggedOut = {}
    /\ cont \in [Nodes -> {NoContainer, OldContainer}]
    /\ call = [t \in Tasks |-> IdleCall]
    /\ admin = 0

\* The plan storage before any call of Create.
NoPlans == [calls |-> 0, inserted |-> <<>>]

NoPatchCall ==
    /\ uPc = "none"
    /\ uConf = EmptyConfig
    /\ uIn = <<>>
    /\ uOut = <<>>
    /\ planStore = NoPlans

\* Calls of CreateContainer and EnvListForEndpoint on the nodes, any number
\* of them on one node, and the administrator.
Init == InitMain /\ rc = OffRc /\ NoPatchCall

\* One call of RecreateContainers, and the administrator.
InitCluster == InitMain /\ rc = IdleRc /\ NoPatchCall

(***************************************************************************)
(* CreateContainer (bs.go 251-301), one action for each request it makes   *)
(* to the store, the authentication service or the docker client.  A local *)
(* variable is reset once the code no longer reads it.                     *)
(***************************************************************************)
\* The call returns e: its local variables are gone.
Return(c, e) ==
    [c EXCEPT !.pc = "ret", !.res = e, !.conf = EmptyConfig, !.img = EmptyStr,
              !.tok = EmptyStr, !.err = NoErr, !.env = <<>>]

Request(c, op, e) == [c EXCEPT !.ops = Append(@, [op |-> op, err |-> e])]

\* A call of CreateContainer made for one node (by the node's queue task),
\* or a call of LoadConfig and EnvListForEndpoint alone.  The calls are
\* alike, so they are numbered in the order they start.
StartDirect(t) ==
    /\ t \in Direct
    /\ rc.pc = "off"
    /\ call[t].pc = "idle"
    /\ \A u \in Direct : u < t => call[u].pc # "idle"
    /\ \E n \in Nodes, r \in BOOLEAN, o \in BOOLEAN :
          /\ o => ~r
          /\ call' = [call EXCEPT ![t] = [@ EXCEPT !.pc = "load", !.arg =
                 [node |-> n, pool |-> PoolOf(n), relaunch |-> r, envOnly |-> o]]]
    /\ UNCHANGED <<config, store, issued, loggedOut, cont, rc, admin, envVars>>

\* bs.go 252-263: docker.NewClient, LoadConfig, getImage.
LoadConfig(t) ==
    /\ call[t].pc = "load"
    /\ \/ \E e \in {ErrNewClient, ErrStorage} :
             call' = [call EXCEPT ![t] = Return(@, e)]
       \/ LET c == IF store.exists THEN store.doc ELSE EmptyConfig
          IN  call' = [call EXCEPT ![t] =
                  [@ EXCEPT !.conf = c, !.img = getImage(c, config.bsImage),
                            !.pc = IF call[t].arg.envOnly THEN "token" ELSE "pull"]]
    /\ UNCHANGED <<config, store, issued, loggedOut, cont, rc, admin, envVars>>

\* bs.go 304-313: docker.NewClient or client.PullImage fails, nothing is saved.
PullFailed(t) ==
    /\ \E e \in {ErrPull, ErrStorage} :
          call' = [call EXCEPT ![t] = Return(@, e)]
    /\ UNCHANGED store

\* bs.go 314-320: the pull printed out; SaveImage of the reference, pinned or not.
PullSaved(t, out) ==
    /\ store' = SaveImageDoc(store, PinnedImage(call[t].img, out))
    /\ call' = [call EXCEPT ![t].pc = "token"]

\* bs.go 264-267, 303-321: pullBsImage, the output being any of PullOutputs.
PullBsImage(t) ==
    /\ call[t].pc = "pull"
    /\ \/ PullFailed(t)
       \/ \E out \in PullOutputs : PullSaved(t, out)
    /\ UNCHANGED <<config, issued, loggedOut, cont, rc, admin, envVars>>

\* bs.go 122-143 and 278-280: what EnvListForEndpoint does once getToken has
\* returned token, with bsConf being conf: every state the call may be in then.
AfterToken(c, conf, token) ==
    {IF r.err # NoErr THEN Return(c, r.err)
     ELSE IF c.arg.envOnly THEN [Return(c, NoErr) EXCEPT !.env = r.envList]
     ELSE [c EXCEPT !.pc = "create", !.env = r.envList, !.conf = EmptyConfig,
                    !.tok = EmptyStr, !.err = NoErr] :
         r \in EnvListForEndpoint(conf, NodeAddress(c.arg.node), c.arg.pool,
                                  [token |-> token, err |-> NoErr], config)}

\* bs.go 277, 121, 147-159: the cached token, or collection() and AppLogin.
GetToken(t) ==
    /\ call[t].pc = "token"
    /\ IF call[t].conf.Token # EmptyStr
       THEN /\ \E n \in AfterToken(call[t], call[t].conf, call[t].conf.Token) :
                  call' = [call EXCEPT ![t] = n]
            /\ UNCHANGED issued
       ELSE \/ /\ \E e \in {ErrStorage, ErrLogin} :
                     call' = [call EXCEPT ![t] = Return(@, e)]
               /\ UNCHANGED issued
            \/ /\ issued' = issued + 1
               /\ call' = [call EXCEPT ![t] =
                      [@ EXCEPT !.tok = TokenValue(issued + 1), !.pc = "upsert"]]
    /\ UNCHANGED <<config, store, loggedOut, cont, rc, admin, envVars>>

\* bs.go 160-167: the conditional Upsert.
Upsert(t) ==
    /\ call[t].pc = "upsert"
    /\ \/ /\ call' = [call EXCEPT ![t] = [@ EXCEPT !.err = ErrStorage, !.pc = "logout"]]
          /\ UNCHANGED store
       \/ LET u == UpsertToken(store, call[t].tok)
          IN  /\ store' = u.rec
              /\ IF u.err = NoErr
                 THEN LET conf == [call[t].conf EXCEPT !.Token = call[t].tok]
                      IN  \E n \in AfterToken(call[t], conf, call[t].tok) :
                             call' = [call EXCEPT ![t] = n]
                 ELSE call' = [call EXCEPT ![t] =
                          [@ EXCEPT !.err = u.err, !.pc = "logout"]]
    /\ UNCHANGED <<config, issued, loggedOut, cont, rc, admin, envVars>>

\* mgo.IsDup(err)
IsDup(e) == e = ErrDup

\* bs.go 168-171: where getToken goes after the Logout of its token.
AfterLogout(c) ==
    IF IsDup(c.err) THEN [c EXCEPT !.pc = "reload", !.tok = EmptyStr, !.err = NoErr]
    ELSE Return(c, c.err)

\* A variant that tests IsDup first and logs out on the other errors only.
LogoutUnlessDup(t) ==
    /\ call[t].pc = "logout"
    /\ loggedOut' = IF IsDup(call[t].err) THEN loggedOut ELSE loggedOut \cup {call[t].tok}
    /\ call' = [call EXCEPT ![t] = AfterLogout(@)]
    /\ UNCHANGED <<config, store, issued, cont, rc, admin, envVars>>

\* bs.go 168-171: Logout of the token just issued; only a duplicate key goes on.
Logout(t) ==
    /\ call[t].pc = "logout"
    /\ loggedOut' = loggedOut \cup {call[t].tok}
    /\ call' = [call EXCEPT ![t] = AfterLogout(@)]
    /\ UNCHANGED <<config, store, issued, cont, rc, admin, envVars>>

\* bs.go 172-176: the record is loaded again and its token returned.
Reload(t) ==
    /\ call[t].pc = "reload"
    /\ \/ call' = [call EXCEPT ![t] = Return(@, ErrStorage)]
       \/ /\ store.exists
          /\ \E n \in AfterToken(call[t], store.doc, store.doc.Token) :
                call' = [call EXCEPT ![t] = n]
    /\ UNCHANGED <<config, store, issued, loggedOut, cont, rc, admin, envVars>>

\* The docker daemon of a node: names are unique, so creating "big-sibling"
\* fails while a container of that name exists.
DockerCreate(c, id) ==
    IF c.present THEN [err |-> ErrContainerAlreadyExists, cont |-> c]
    ELSE [err |-> NoErr, cont |-> [present |-> TRUE, id |-> id, running |-> FALSE]]

\* RemoveContainer by name, Force: true.
DockerRemove(c) ==
    IF c.present THEN [err |-> NoErr, cont |-> NoContainer]
    ELSE [err |-> ErrNoSuchContainer, cont |-> c]

\* StartContainer by the id CreateContainer returned.
DockerStart(c, id) ==
    IF c.present /\ c.id = id THEN [err |-> NoErr, cont |-> [c EXCEPT !.running = TRUE]]
    ELSE [err |-> ErrNoSuchContainer, cont |-> c]

\* A variant that removes the container whatever relaunch is.
AfterCreateAlwaysRelaunch(relaunch, e) ==
    IF e = ErrContainerAlreadyExists THEN "remove"
    ELSE IF e # NoErr THEN "ret" ELSE "start"

\* bs.go 290-300: where the call goes after the first CreateContainer.
AfterCreate(relaunch, e) ==
    IF relaunch /\ e = ErrContainerAlreadyExists THEN "remove"
    ELSE IF e # NoErr THEN "ret" ELSE "start"

\* A variant that goes on to create whatever RemoveContainer returned.
AfterRemoveIgnoringError(e) == "create2"

\* bs.go 292-299: after RemoveContainer, and after the second CreateContainer.
AfterRemove(e) == IF e # NoErr THEN "ret" ELSE "create2"

\* A variant that returns the second CreateContainer's error, nil included.
AfterCreate2NoStart(e) == "ret"

AfterCreate2(e) == IF e # NoErr THEN "ret" ELSE "start"

\* The call after a request that returned e and leads to the label next.
Step(c, op, e, next) ==
    IF next = "ret" THEN Return(Request(c, op, e), e)
    ELSE [Request(c, op, e) EXCEPT !.pc = next]

\* bs.go 289-290, 297-299: the first client.CreateContainer.
Create(t) ==
    /\ call[t].pc = "create"
    /\ \E r \in {DockerCreate(cont[call[t].arg.node], t),
                 [err |-> ErrCreate, cont |-> cont[call[t].arg.node]]} :
          /\ cont' = [cont EXCEPT ![call[t].arg.node] = r.cont]
          /\ call' = [call EXCEPT ![t] =
                 Step(@, "create", r.err, AfterCreate(@.arg.relaunch, r.err))]
    /\ UNCHANGED <<config, store, issued, loggedOut, rc, admin, envVars>>

\* bs.go 291-294.
Remove(t) ==
    /\ call[t].pc = "remove"
    /\ \E r \in {DockerRemove(cont[call[t].arg.node]),
                 [err |-> ErrRemove, cont |-> cont[call[t].arg.node]]} :
          /\ cont' = [cont EXCEPT ![call[t].arg.node] = r.cont]
          /\ call' = [call EXCEPT ![t] = Step(@, "remove", r.err, AfterRemove(r.err))]
    /\ UNCHANGED <<config, store, issued, loggedOut, rc, admin, envVars>>

\* bs.go 295-299: the second client.CreateContainer.
Create2(t) ==
    /\ call[t].pc = "create2"
    /\ \E r \in {DockerCreate(cont[call[t].arg.node], t),
                 [err |-> ErrCreate, cont |-> cont[call[t].arg.node]]} :
          /\ cont' = [cont EXCEPT ![call[t].arg.node] = r.cont]
          /\ call' = [call EXCEPT ![t] = Step(@, "create", r.err, AfterCreate2(r.err))]
    /\ UNCHANGED <<config, store, issued, loggedOut, rc, admin, envVars>>

\* A variant that removes the container when StartContainer fails.
StartWithRollback(t) ==
    /\ call[t].pc = "start"
    /\ \E r \in {DockerStart(cont[call[t].arg.node], t),
                 [err |-> ErrStart, cont |-> cont[call[t].arg.node]]} :
          /\ cont' = [cont EXCEPT ![call[t].arg.node] =
                          IF r.err # NoErr THEN NoContainer ELSE r.cont]
          /\ call' = [call EXCEPT ![t] = Step(@, "start", r.err, "ret")]
    /\ UNCHANGED <<config, store, issued, loggedOut, rc, admin, envVars>>

\* bs.go 300.
Start(t) ==
    /\ call[t].pc = "start"
    /\ \E r \in {DockerStart(cont[call[t].arg.node], t),
                 [err |-> ErrStart, cont |-> cont[call[t].arg.node]]} :
          /\ cont' = [cont EXCEPT ![call[t].arg.node] = r.cont]
          /\ call' = [call EXCEPT ![t] = Step(@, "start", r.err, "ret")]
    /\ UNCHANGED <<config, store, issued, loggedOut, rc, admin, envVars>>

(***************************************************************************)
(* RecreateContainers (bs.go 331-359).                                     *)
(***************************************************************************)
\* errors.New(msg) of bs.go 349-351.
WorkerError(node, e) ==
    <<"[bs containers] failed to create container in ">> \o node.Address
        \o <<" [", node.pool, "]: ">> \o e

\* A variant that returns nil once the workers are done.
ChanRecvNil(ch) == NoErr

\* A variant that returns the newest buffered value.
ChanRecvLast(ch) == IF ch = <<>> THEN NoErr ELSE ch[Len(ch)]

\* <-errChan on the closed channel: the oldest buffered value, nil when empty.
ChanRecv(ch) == IF ch = <<>> THEN NoErr ELSE Head(ch)

\* bs.go 332-339: cluster.UnfilteredNodes() and make(chan error, len(nodes)).
RCStart ==
    /\ rc.pc = "idle"
    /\ \/ rc' = [rc EXCEPT !.pc = "done", !.ret = ErrNodes]
       \/ \E n \in 0..MaxNodes :
             rc' = [rc EXCEPT !.pc = "spawn",
                              !.nodes = [i \in 1..n |->
                                  [node |-> i, Address |-> NodeAddress(i), pool |-> PoolOf(i)]]]
    /\ UNCHANGED <<config, store, issued, loggedOut, cont, call, admin, envVars>>

\* bs.go 345-347: the arguments of the worker's CreateContainer.
SpawnArg(node) ==
    [node |-> node.node, pool |-> node.pool, relaunch |-> TRUE, envOnly |-> FALSE]

\* bs.go 340-342: wg.Add(1) and the go statement of node i.
RCSpawn ==
    /\ rc.pc = "spawn"
    /\ rc.i <= Len(rc.nodes)
    /\ rc' = [rc EXCEPT !.i = @ + 1, !.wg = @ + 1]
    /\ call' = [call EXCEPT ![rc.i] =
           [@ EXCEPT !.pc = "load", !.arg = SpawnArg(rc.nodes[rc.i])]]
    /\ UNCHANGED <<config, store, issued, loggedOut, cont, admin, envVars>>

\* A variant with an unbuffered channel: make(chan error).
ChanCapUnbuffered(nodes) == 0

\* bs.go 337: make(chan error, len(nodes)).
ChanCap(nodes) == Len(nodes)

\* bs.go 348-353: the worker's send of its error, which waits while the
\* channel is full.
WorkerSend(t) ==
    /\ t \in Workers
    /\ call[t].pc = "ret"
    /\ call[t].res # NoErr
    /\ Len(rc.errChan) < ChanCap(rc.nodes)
    /\ rc' = [rc EXCEPT !.errChan = Append(@, WorkerError(rc.nodes[t], call[t].res))]
    /\ call' = [call EXCEPT ![t].pc = "defer"]
    /\ UNCHANGED <<config, store, issued, loggedOut, cont, admin, envVars>>

\* bs.go 343: the deferred wg.Done().
WorkerDone(t) ==
    /\ t \in Workers
    /\ \/ call[t].pc = "defer"
       \/ call[t].pc = "ret" /\ call[t].res = NoErr
    /\ rc' = [rc EXCEPT !.wg = @ - 1]
    /\ call' = [call EXCEPT ![t].pc = "done"]
    /\ UNCHANGED <<config, store, issued, loggedOut, cont, admin, envVars>>

\* A variant without wg.Wait().
RCWaitNoBarrier ==
    /\ rc.pc = "spawn"
    /\ rc.i > Len(rc.nodes)
    /\ rc' = [rc EXCEPT !.pc = "recv", !.closed = TRUE]
    /\ UNCHANGED <<config, store, issued, loggedOut, cont, call, admin, envVars>>

\* bs.go 356-357: wg.Wait() returns and the channel is closed.
RCWait ==
    /\ rc.pc = "spawn"
    /\ rc.i > Len(rc.nodes)
    /\ rc.wg = 0
    /\ rc' = [rc EXCEPT !.pc = "recv", !.closed = TRUE]
    /\ UNCHANGED <<config, store, issued, loggedOut, cont, call, admin, envVars>>

\* bs.go 358: return <-errChan.
RCReturn ==
    /\ rc.pc = "recv"
    /\ rc' = [rc EXCEPT !.pc = "done", !.ret = ChanRecv(rc.errChan),
                        !.errChan = IF @ = <<>> THEN @ ELSE Tail(@)]
    /\ UNCHANGED <<config, store, issued, loggedOut, cont, call, admin, envVars>>

(***************************************************************************)
(* The administrator's writes (bs.go 202-221).                             *)
(***************************************************************************)
SaveEnvs ==
    /\ admin < MaxAdmin
    /\ admin' = admin + 1
    /\ \E envMap \in AdminEnvMaps, poolEnvMap \in AdminPoolEnvMaps :
          \E finalConf \in bsConfigFromEnvMaps(envMap, poolEnvMap) :
             store' = SaveEnvsDoc(store, finalConf)
    /\ UNCHANGED <<config, issued, loggedOut, cont, call, rc, envVars>>

SaveImage ==
    /\ admin < MaxAdmin
    /\ admin' = admin + 1
    /\ \E image \in AdminImages : store' = SaveImageDoc(store, image)
    /\ UNCHANGED <<config, issued, loggedOut, cont, call, rc, envVars>>

\* The steps of a call of CreateContainer.
TaskStep ==
    \/ \E t \in Tasks : LoadConfig(t)
    \/ \E t \in Tasks : PullBsImage(t)
    \/ \E t \in Tasks : GetToken(t)
    \/ \E t \in Tasks : Upsert(t)
    \/ \E t \in Tasks : Logout(t)
    \/ \E t \in Tasks : Reload(t)
    \/ \E t \in Tasks : Create(t)
    \/ \E t \in Tasks : Remove(t)
    \/ \E t \in Tasks : Create2(t)
    \/ \E t \in Tasks : Start(t)

\* The steps of the calls of CreateContainer, and the administrator's.
Deploy ==
    \/ TaskStep
    \/ SaveEnvs
    \/ SaveImage

Next ==
    \/ \E t \in Tasks : StartDirect(t)
    \/ Deploy

NextCluster ==
    \/ RCStart
    \/ RCSpawn
    \/ \E t \in Tasks : WorkerSend(t)
    \/ \E t \in Tasks : WorkerDone(t)
    \/ RCWait
    \/ RCReturn
    \/ Deploy

Spec == Init /\ [][Next]_vars

SpecCluster == InitCluster /\ [][NextCluster]_vars

\* The steps of RecreateContainers, of its workers and of their deployments.
ClusterStep ==
    \/ RCStart
    \/ RCSpawn
    \/ \E t \in Tasks : WorkerSend(t)
    \/ \E t \in Tasks : WorkerDone(t)
    \/ RCWait
    \/ RCReturn
    \/ TaskStep

\* The Go scheduler runs a goroutine that can run, and every request of a
\* deployment returns: a step of the program that stays possible is taken.
\* The administrator need not act.
SpecClusterFair == SpecCluster /\ WF_vars(ClusterStep)

(***************************************************************************)
(* UpdateEnvMaps and EnvListForEndpoint called on every patch of the       *)
(* bounds: the patch is conf, the receiver of both methods.                *)
(***************************************************************************)
PoolNames == {"p1", "p2"}

\* The names and values of a patch's entries; the last name holds a '='.
PatchNames == {Str("A"), Str("TSURU_TOKEN"), <<"DOCKER_ENDPOINT", "=", "A">>}

PatchValues == {EmptyStr, Str("x")}

PatchEnvs == {[Name |-> n, Value |-> v] : n \in PatchNames, v \in PatchValues}

RECURSIVE EnvSeqs(_)
\* The lists of exactly k entries.
EnvSeqs(k) ==
    IF k = 0 THEN {<<>>}
    ELSE {Append(l, e) : l \in EnvSeqs(k - 1), e \in PatchEnvs}

RECURSIVE PoolSeqs(_)
\* The lists of PoolEnvs holding at most k pools and entries together.
PoolSeqs(k) ==
    IF k = 0 THEN {<<>>}
    ELSE LET P == PoolSeqs(k - 1)
         IN  P \cup {Append(l, [Name |-> p, Envs |-> <<>>]) : l \in P, p \in PoolNames}
               \cup {[l EXCEPT ![Len(l)].Envs = Append(@, e)] :
                         l \in P \ {<<>>}, e \in PatchEnvs}

Patches ==
    UNION {{[EmptyConfig EXCEPT !.Envs = e, !.Pools = p] :
                e \in EnvSeqs(j), p \in PoolSeqs(MaxPatchSize - j)} :
           j \in 0..MaxPatchSize}

\* The maps UpdateEnvMaps is called on.
TargetEnvMaps ==
    { EmptyMap, MapSet(MapSet(EmptyMap, Str("A"), Str("y")), Str("B"), Str("y")) }

TargetPoolEnvMaps ==
    { EmptyMap, MapSet(EmptyMap, "p1", MapSet(EmptyMap, Str("A"), Str("y"))) }

\* The configuration files EnvListForEndpoint is called with.
EnvConfigs ==
    { MainConfig,
      [host |-> <<"https", ":", "/", "/", "tsuru.example", "/", "/">>,
       socket |-> <<"/", "tmp", "/", "docker.sock">>, port |-> 514,
       bsImage |-> EmptyStr] }

\* What getToken may have returned to EnvListForEndpoint.
TokenResults ==
    { [token |-> TokenValue(1), err |-> NoErr], [token |-> EmptyStr, err |-> ErrLogin] }

InitEnv ==
    /\ config \in EnvConfigs
    /\ store = NoRecord
    /\ issued = 0
    /\ loggedOut = {}
    /\ cont = [n \in Nodes |-> NoContainer]
    /\ call = [t \in Tasks |-> IdleCall]
    /\ rc = OffRc
    /\ admin = 0
    /\ uPc = "input"
    /\ uConf \in Patches
    /\ uIn = <<>>
    /\ uOut = <<>>
    /\ planStore = NoPlans

UpdateEnvMapsCall ==
    /\ uPc = "input"
    /\ \E envMap \in TargetEnvMaps, poolEnvMap \in TargetPoolEnvMaps :
          /\ uIn' = [envMap |-> envMap, poolEnvMap |-> poolEnvMap]
          /\ uOut' = UpdateEnvMaps(uConf, envMap, poolEnvMap)
    /\ uPc' = "updated"
    /\ UNCHANGED <<config, store, issued, loggedOut, cont, call, rc, admin, uConf, planStore>>

EnvListForEndpointCall ==
    /\ uPc = "input"
    /\ \E n \in Nodes, poolName \in PoolNames, tokenRes \in TokenResults :
          /\ uIn' = [dockerEndpoint |-> NodeAddress(n), poolName |-> poolName,
                     tokenRes |-> tokenRes]
          /\ uOut' \in EnvListForEndpoint(uConf, NodeAddress(n), poolName, tokenRes, config)
    /\ uPc' = "listed"
    /\ UNCHANGED <<config, store, issued, loggedOut, cont, call, rc, admin, uConf, planStore>>

NextEnv ==
    \/ UpdateEnvMapsCall
    \/ EnvListForEndpointCall

SpecEnv == InitEnv /\ [][NextEnv]_vars

(***************************************************************************)
(* The image of a deployment: shouldPinBsImage called on every reference   *)
(* of the bounds, and the calls of LoadConfig, getImage and pullBsImage    *)
(* that deployments make one after or beside another.                      *)
(***************************************************************************)
\* The pieces of a reference: "r" is a run of characters other than / and :
RefPieces == {"r", "/", ":"}

RECURSIVE Refs(_)
\* The references of at most k pieces.
Refs(k) ==
    IF k = 0 THEN {<<>>}
    ELSE LET R == Refs(k - 1)
         IN  R \cup {Append(r, p) : r \in R, p \in RefPieces}

\* The values of docker:bs:image: none, a tagged reference, and an untagged
\* one on a registry with a port.
ImageConfigs ==
    { MainConfig,
      [MainConfig EXCEPT !.bsImage = <<"tsuru", "/", "bs", ":", "v1">>],
      [MainConfig EXCEPT !.bsImage = <<"reg", ":", "5000", "/", "tsuru", "/", "bs">>] }

\* What a pull may print: no digest, one digest, or two different ones.
ImagePullOutputs ==
    { <<Str("Pulling")>>,
      <<Str("Pulling"), DigestLine("d1"), Str("Status")>>,
      <<DigestLine("d2"), Str("Status")>>,
      <<Str("Pulling"), DigestLine("d2"), DigestLine("d1")>> }

InitImage ==
    /\ config \in ImageConfigs
    /\ store = NoRecord
    /\ issued = 0
    /\ loggedOut = {}
    /\ cont = [n \in Nodes |-> NoContainer]
    /\ call = [t \in Tasks |-> IdleCall]
    /\ rc = OffRc
    /\ admin = 0
    /\ NoPatchCall

\* shouldPinBsImage(image), before any deployment.
ShouldPinCall ==
    /\ uPc = "none"
    /\ \A t \in Tasks : call[t].pc = "idle"
    /\ \E image \in Refs(MaxRefLen) :
          /\ uIn' = [image |-> image]
          /\ uOut' = [pin |-> shouldPinBsImage(image)]
    /\ uPc' = "decided"
    /\ UNCHANGED <<config, store, issued, loggedOut, cont, call, rc, admin, uConf, planStore>>

\* A deployment starts.
StartPull(t) ==
    /\ uPc # "decided"
    /\ StartDirect(t)

\* pullBsImage of a deployment; uIn keeps its image and the output of the pull.
PullBsImageCall(t) ==
    /\ call[t].pc = "pull"
    /\ \/ PullFailed(t) /\ UNCHANGED envVars
       \/ \E out \in ImagePullOutputs :
             /\ PullSaved(t, out)
             /\ uIn' = [image |-> call[t].img, out |-> out]
             /\ uPc' = "pulled"
             /\ UNCHANGED <<uConf, uOut, planStore>>
    /\ UNCHANGED <<config, issued, loggedOut, cont, rc, admin>>

NextImage ==
    \/ ShouldPinCall
    \/ \E t \in Tasks : StartPull(t)
    \/ \E t \in Tasks : LoadConfig(t)
    \/ \E t \in Tasks : PullBsImageCall(t)

SpecImage == InitImage /\ [][NextImage]_vars

(***************************************************************************)
(* planService.Create (package app): the validation of a plan and the call *)
(* of the storage's Insert, as plan_test.go exercises them.  The limits    *)
(* are those the tests separate: a CPU share of 1 and a memory of 4 are    *)
(* refused, a CPU share of 100 and the largest memory are accepted.        *)
(***************************************************************************)
PlanCpuShareLimit == 2

PlanMemoryLimit == 4194304

\* The largest memory of the model stands for the test's 9223372036854775807.
PlanMemories == {4, PlanMemoryLimit - 1, PlanMemoryLimit, 2147483647}

PlanCpuShares == {1, PlanCpuShareLimit, 100}

Plans ==
    {[Name |-> n, Memory |-> m, Swap |-> 1024, CpuShare |-> c] :
         n \in {EmptyStr, Str("plan1")}, m \in PlanMemories, c \in PlanCpuShares}

\* PlanValidationError{Field: "name"}
ErrPlanName == Str("invalid plan name")

ErrLimitOfCpuShare == Str("cpushare below limit")

ErrLimitOfMemory == Str("memory below limit")

\* A variant that does not look at the memory.
ValidatePlanNoMemory(p) ==
    IF p.Name = EmptyStr THEN ErrPlanName
    ELSE IF p.CpuShare < PlanCpuShareLimit THEN ErrLimitOfCpuShare
    ELSE NoErr

\* The checks of Create, nil for a valid plan.
ValidatePlan(p) ==
    IF p.Name = EmptyStr THEN ErrPlanName
    ELSE IF p.CpuShare < PlanCpuShareLimit THEN ErrLimitOfCpuShare
    ELSE IF p.Memory < PlanMemoryLimit THEN ErrLimitOfMemory
    ELSE NoErr

\* Create(plan): a refused plan never reaches the storage; a valid one is
\* given to Insert, whose error, if any, is returned.
PlanCreate ==
    /\ planStore.calls < MaxPlanCalls
    /\ \E p \in Plans, ins \in {NoErr, ErrStorage} :
          LET v == ValidatePlan(p)
          IN  /\ uIn' = p
              /\ IF v # NoErr
                 THEN /\ uOut' = [err |-> v, insert |-> NoErr]
                      /\ planStore' = [planStore EXCEPT !.calls = @ + 1]
                 ELSE /\ uOut' = [err |-> ins, insert |-> ins]
                      /\ planStore' = [calls |-> planStore.calls + 1,
                                       inserted |-> Append(planStore.inserted, p)]
    /\ uPc' = "created"
    /\ UNCHANGED <<config, store, issued, loggedOut, cont, call, rc, admin, uConf>>

InitPlan ==
    /\ config = MainConfig
    /\ store = NoRecord
    /\ issued = 0
    /\ loggedOut = {}
    /\ cont = [n \in Nodes |-> NoContainer]
    /\ call = [t \in Tasks |-> IdleCall]
    /\ rc = OffRc
    /\ admin = 0
    /\ NoPatchCall

NextPlan == PlanCreate

SpecPlan == InitPlan /\ [][NextPlan]_vars

(***************************************************************************)
(* Properties of the token protocol.                                       *)
(***************************************************************************)
\* The entry of TSURU_TOKEN in a list EnvListForEndpoint returned.
TokenEntry(envList) == envList[3]

Holding(t) == call[t].env # <<>>

\* C1: in every interleaving of first-time getToken calls, with or without
\* a stored record, every call that got a token from getToken without error
\* got the token the record holds, so no second value was ever stored.
C1_OneTokenStored ==
    \A t \in Tasks :
        Holding(t) =>
            /\ store.exists
            /\ store.doc.Token # EmptyStr
            /\ TokenEntry(call[t].env) = <<"TSURU_TOKEN", "=">> \o store.doc.Token

\* Two calls of EnvListForEndpoint alone, both issued a token, no record
\* existed before the first Upsert (nothing else was ever saved), both
\* returned.
C1_Witness ==
    \E t, u \in Tasks :
        /\ t # u
        /\ call[t].arg.envOnly /\ call[u].arg.envOnly
        /\ Holding(t) /\ Holding(u)
        /\ issued = 2
        /\ store.doc.Image = EmptyStr /\ store.doc.Envs = <<>>

IssuedTokens == {TokenValue(k) : k \in 1..issued}

\* The tokens a getToken call holds between AppLogin and Logout.
InFlight == {call[t].tok : t \in {u \in Tasks : call[u].pc \in {"upsert", "logout"}}}

\* C2: a token whose Upsert did not succeed is logged out before its getToken
\* returns, the stored token is never logged out, and no call returns a
\* token that was logged out.
C2_LosersLoggedOut ==
    /\ store.doc.Token \notin loggedOut
    /\ \A k \in IssuedTokens : k = store.doc.Token \/ k \in loggedOut \/ k \in InFlight
    /\ \A t \in Tasks : Holding(t) =>
          SubSeq(TokenEntry(call[t].env), 3, Len(TokenEntry(call[t].env))) \notin loggedOut

\* A call lost the duplicate-key race: its token is logged out and it
\* returned the stored one, which another call had issued.
C2_Witness ==
    \E t \in Tasks :
        /\ Holding(t)
        /\ issued = 2
        /\ store.doc.Token = TokenValue(1)
        /\ loggedOut = {TokenValue(2)}
        /\ \A u \in Tasks : call[u].pc \in {"idle", "ret"}
        /\ \E u \in Tasks : u # t /\ call[u].pc = "ret" /\ call[u].res = NoErr

\* C3: once the stored record holds a non-empty token, no step of getToken,
\* SaveImage, SaveEnvs, CreateContainer or RecreateContainers changes it.
C3_TokenImmutable ==
    [][store.doc.Token # EmptyStr => store'.doc.Token = store.doc.Token]_vars

\* RecreateContainers returned after a token was stored, a second token was
\* refused, and the administrator saved environments.
C3_Witness ==
    /\ rc.pc = "done"
    /\ store.doc.Token # EmptyStr
    /\ store.doc.Envs # <<>>
    /\ store.doc.Image # EmptyStr
    /\ loggedOut # {}

(***************************************************************************)
(* Properties of RecreateContainers.                                       *)
(***************************************************************************)
Enumerated == rc.pc \in {"recv", "done"} /\ rc.ret # ErrNodes

\* C4: for N enumerated nodes, when RecreateContainers has passed its barrier
\* the deployer was called for each node and for nothing else, with relaunch
\* true and the node's pool, and each call has run to its end, whichever
\* calls failed.
C4_AllNodesDeployed ==
    Enumerated =>
        /\ \A i \in 1..Len(rc.nodes) :
              /\ call[i].pc = "done"
              /\ call[i].arg = [node |-> i, pool |-> PoolOf(i), relaunch |-> TRUE,
                                envOnly |-> FALSE]
        /\ \A t \in Tasks \ (1..Len(rc.nodes)) : call[t].pc = "idle"

\* Two nodes: the call on the first failed, the call on the second started
\* its container.
C4_Witness ==
    /\ rc.pc = "done"
    /\ Len(rc.nodes) = 2
    /\ call[1].res # NoErr
    /\ call[2].res = NoErr
    /\ cont[2] = [present |-> TRUE, id |-> 2, running |-> TRUE]

\* C5: when the nodes were enumerated, RecreateContainers returns nil exactly
\* when every call of the deployer returned nil (also for no node), and an
\* error exactly when one of them failed.
C5_NilIffAllSucceeded ==
    (rc.pc = "done" /\ rc.ret # ErrNodes) =>
        (rc.ret = NoErr <=> \A i \in 1..Len(rc.nodes) : call[i].res = NoErr)

\* Two nodes, the second call failed alone, an error is returned.
C5_Witness ==
    /\ rc.pc = "done"
    /\ Len(rc.nodes) = 2
    /\ call[1].res = NoErr
    /\ call[2].res # NoErr
    /\ rc.ret # NoErr

(***************************************************************************)
(* Properties of CreateContainer on one node.                              *)
(***************************************************************************)
Exists(t) ==
    /\ call[t].ops # <<>>
    /\ call[t].ops[1] = [op |-> "create", err |-> ErrContainerAlreadyExists]

\* C6: a call with relaunch false whose CreateContainer finds the name taken
\* returns the already-exists error having made no other request to the
\* docker client: nothing is removed, started or created.
C6_NoRelaunchKeepsContainer ==
    \A t \in Tasks :
        (Exists(t) /\ ~call[t].arg.relaunch) =>
            /\ call[t].pc = "ret"
            /\ call[t].res = ErrContainerAlreadyExists
            /\ Len(call[t].ops) = 1

\* Such a call on a node whose old container is still there, running.
C6_Witness ==
    \E t \in Tasks :
        /\ Exists(t) /\ ~call[t].arg.relaunch
        /\ call[t].pc = "ret"
        /\ cont[call[t].arg.node] = OldContainer

Returns(t) == call[t].pc # "ret" /\ call'[t].pc = "ret"

\* C7: a call with relaunch true that finds the name taken and then succeeds
\* has removed the old container, created a new one and started it, in that
\* order, and as it returns the node holds that one container, running.
C7_RelaunchReplaces ==
    [][\A t \in Tasks :
          (Returns(t) /\ call[t].arg.relaunch /\ call'[t].res = NoErr
             /\ call'[t].ops[1].err = ErrContainerAlreadyExists) =>
              /\ call'[t].ops = << [op |-> "create", err |-> ErrContainerAlreadyExists],
                                   [op |-> "remove", err |-> NoErr],
                                   [op |-> "create", err |-> NoErr],
                                   [op |-> "start", err |-> NoErr] >>
              /\ cont'[call[t].arg.node] = [present |-> TRUE, id |-> t, running |-> TRUE]]_vars

C7_Witness ==
    \E t \in Tasks :
        /\ call[t].arg.relaunch
        /\ call[t].pc = "ret" /\ call[t].res = NoErr
        /\ Len(call[t].ops) = 4
        /\ cont[call[t].arg.node] = [present |-> TRUE, id |-> t, running |-> TRUE]

(***************************************************************************)
(* Properties of the environment.                                          *)
(***************************************************************************)
ReservedNames == {"DOCKER_ENDPOINT", "TSURU_ENDPOINT", "TSURU_TOKEN", "SYSLOG_LISTEN_ADDRESS"}

\* The name of an entry NAME=VALUE: what precedes its first '='.
EntryName(e) ==
    LET k == IndexOf(e, "=", 1)
    IN  IF k = 0 THEN e ELSE SubSeq(e, 1, k - 1)

\* C8: a list EnvListForEndpoint returns holds exactly one entry for each of
\* the four reserved names; no entry of the patch adds a second one.
C8_OneEntryPerReservedName ==
    (uPc = "listed" /\ uOut.err = NoErr) =>
        \A r \in ReservedNames :
            Cardinality({i \in 1..Len(uOut.envList) : EntryName(uOut.envList[i]) = Str(r)}) = 1

\* The entries of a patch in the order UpdateEnvMaps visits them: j is 0 for
\* a global entry and the index of its pool otherwise.
RECURSIVE PoolItems(_, _)
PoolItems(pools, j) ==
    IF j > Len(pools) THEN <<>>
    ELSE [i \in 1..Len(pools[j].Envs) |->
             [j |-> j, pool |-> pools[j].Name, Name |-> pools[j].Envs[i].Name,
              Value |-> pools[j].Envs[i].Value]]
         \o PoolItems(pools, j + 1)

Items(c) ==
    [i \in 1..Len(c.Envs) |->
        [j |-> 0, pool |-> "", Name |-> c.Envs[i].Name, Value |-> c.Envs[i].Value]]
    \o PoolItems(c.Pools, 1)

Reserved(item) == \E r \in ReservedNames : item.Name = Str(r)

\* The index of the first entry with a reserved name, 0 when there is none.
FirstReserved(items) ==
    LET R == {i \in 1..Len(items) : Reserved(items[i])}
    IN  IF R = {} THEN 0 ELSE CHOOSE i \in R : \A k \in R : i <= k

\* The last of the first k entries that names key on the global map
\* (j = 0) or on the map of pool, 0 when none does.
LastOn(items, k, global, pool, key) ==
    LET S == {i \in 1..k : /\ items[i].Name = key
                           /\ IF global THEN items[i].j = 0
                              ELSE items[i].j # 0 /\ items[i].pool = pool}
    IN  IF S = {} THEN 0 ELSE CHOOSE i \in S : \A x \in S : x <= i

\* The map orig once the first k entries are applied to it, key by key.
Applied(items, k, global, pool, orig) ==
    LET named == {items[i].Name : i \in 1..k}
        keys  == {key \in (DOMAIN orig) \cup named :
                     LET l == LastOn(items, k, global, pool, key)
                     IN  IF l = 0 THEN key \in DOMAIN orig ELSE items[l].Value # EmptyStr}
    IN  [key \in keys |->
            LET l == LastOn(items, k, global, pool, key)
            IN  IF l = 0 THEN orig[key] ELSE items[l].Value]

OrigPool(p) == IF p \in DOMAIN uIn.poolEnvMap THEN uIn.poolEnvMap[p] ELSE EmptyMap

\* The maps hold the first k entries and the map of each of the first pools
\* pools of the patch exists.
MapsHold(items, k, pools) ==
    /\ uOut.envMap = Applied(items, k, TRUE, "", uIn.envMap)
    /\ DOMAIN uOut.poolEnvMap =
           (DOMAIN uIn.poolEnvMap) \cup {uConf.Pools[j].Name : j \in 1..pools}
    /\ \A p \in DOMAIN uOut.poolEnvMap :
           uOut.poolEnvMap[p] = Applied(items, k, FALSE, p, OrigPool(p))

\* C9: on a patch with an entry of a forbidden name, UpdateEnvMaps returns an
\* error naming the first such entry in processing order; every entry before
\* it is applied and none at or after it.
C9_StopsAtFirstForbidden ==
    uPc = "updated" =>
        LET items == Items(uConf)
            f     == FirstReserved(items)
        IN  f # 0 =>
              /\ uOut.err = <<"cannot set ">> \o items[f].Name \o <<" variable">>
              /\ MapsHold(items, f - 1, items[f].j)

\* The forbidden entry is the second of three global ones: the first was
\* applied, the third was not.
C9_Witness ==
    /\ uPc = "updated"
    /\ Len(uConf.Envs) = 3
    /\ FirstReserved(Items(uConf)) = 2
    /\ uConf.Envs[3] = [Name |-> Str("A"), Value |-> Str("x")]
    /\ uConf.Envs[1] = [Name |-> Str("A"), Value |-> EmptyStr]
    /\ Str("A") \in DOMAIN uIn.envMap
    /\ Str("A") \notin DOMAIN uOut.envMap

\* C10: on a patch without forbidden names, each entry deletes its key from
\* its target map when its value is empty and sets it otherwise; the other
\* keys are unchanged and the patch maps no key to the empty string.
C10_DeleteOrSet ==
    uPc = "updated" =>
        LET items == Items(uConf)
        IN  FirstReserved(items) = 0 =>
              /\ uOut.err = NoErr
              /\ MapsHold(items, Len(items), Len(uConf.Pools))
              /\ \A i \in 1..Len(items) :
                    /\ items[i].j = 0 /\ items[i].Name \in DOMAIN uOut.envMap
                          => uOut.envMap[items[i].Name] # EmptyStr
                    /\ items[i].j # 0 /\ items[i].Name \in DOMAIN uOut.poolEnvMap[items[i].pool]
                          => uOut.poolEnvMap[items[i].pool][items[i].Name] # EmptyStr

\* A global entry deletes A, a pool entry sets A in a pool that had no map,
\* and B, which the patch does not name, is still there.
C10_Witness ==
    /\ uPc = "updated"
    /\ FirstReserved(Items(uConf)) = 0
    /\ Str("A") \in DOMAIN uIn.envMap /\ Str("A") \notin DOMAIN uOut.envMap
    /\ Str("B") \in DOMAIN uOut.envMap
    /\ "p2" \notin DOMAIN uIn.poolEnvMap
    /\ "p2" \in DOMAIN uOut.poolEnvMap
    /\ Str("A") \in DOMAIN uOut.poolEnvMap["p2"]

(***************************************************************************)
(* Properties of the image reference.                                      *)
(***************************************************************************)
\* What follows the last '/' of a reference, the whole of it when it has none.
LastSegment(image) ==
    LET S == {i \in 1..Len(image) : image[i] = "/"}
        k == IF S = {} THEN 0 ELSE CHOOSE i \in S : \A j \in S : j <= i
    IN  SubSeq(image, k + 1, Len(image))

\* C11: shouldPinBsImage is true exactly when what follows the last '/' of
\* the reference holds no ':', whatever the number of segments and whatever
\* the earlier segments hold.
C11_PinIffLastSegmentUntagged ==
    uPc = "decided" =>
        (uOut.pin <=> IndexOf(LastSegment(uIn.image), ":", 1) = 0)

(***************************************************************************)
(* Properties of the stored record.                                        *)
(***************************************************************************)
\* C12: the stored record never holds a global or per-pool entry named
\* DOCKER_ENDPOINT, TSURU_ENDPOINT, SYSLOG_LISTEN_ADDRESS or TSURU_TOKEN.
C12_NoForbiddenPersisted ==
    /\ \A i \in 1..Len(store.doc.Envs) : ~Reserved(store.doc.Envs[i])
    /\ \A j \in 1..Len(store.doc.Pools) :
          \A i \in 1..Len(store.doc.Pools[j].Envs) : ~Reserved(store.doc.Pools[j].Envs[i])

(***************************************************************************)
(* Properties of planService.Create.                                       *)
(***************************************************************************)
\* The validation errors that match what is wrong with a plan.
Matching(p) ==
    {e \in {ErrPlanName, ErrLimitOfCpuShare, ErrLimitOfMemory} :
        \/ e = ErrPlanName /\ p.Name = EmptyStr
        \/ e = ErrLimitOfCpuShare /\ p.CpuShare < PlanCpuShareLimit
        \/ e = ErrLimitOfMemory /\ p.Memory < PlanMemoryLimit}

\* C13: Create refuses a plan with an empty name, a CPU share below the
\* limit or a memory below the limit with a matching validation error and
\* without calling Insert; it gives a valid plan unchanged to Insert and
\* returns nil when Insert does.
C13_CreateValidates ==
    [][planStore'.calls = planStore.calls + 1 =>
          IF Matching(uIn') # {}
          THEN /\ uOut'.err \in Matching(uIn')
               /\ planStore'.inserted = planStore.inserted
          ELSE /\ planStore'.inserted = Append(planStore.inserted, uIn')
               /\ uOut'.err = uOut'.insert]_vars

\* A valid plan with the largest memory was inserted by the first call and
\* the second call refused a memory just below the limit.
C13_Witness ==
    /\ planStore.calls = 2
    /\ planStore.inserted =
           <<[Name |-> Str("plan1"), Memory |-> 2147483647, Swap |-> 1024, CpuShare |-> 100]>>
    /\ uIn = [Name |-> Str("plan1"), Memory |-> PlanMemoryLimit - 1, Swap |-> 1024,
              CpuShare |-> 100]
    /\ uOut.err = ErrLimitOfMemory

(***************************************************************************)
(* Properties of the error channel of RecreateContainers.                  *)
(***************************************************************************)
\* The step of bs.go 358 with at least two failures collected.
ReceivesOfSeveral == rc.pc = "recv" /\ rc'.pc = "done" /\ Len(rc.errChan) >= 2

\* C14: when two or more deployments failed, RecreateContainers returns the
\* last failure delivered to the channel.
C14_ReturnsLastFailure ==
    [][ReceivesOfSeveral => rc'.ret = rc.errChan[Len(rc.errChan)]]_vars

\* C14 as amended: when two or more deployments failed, RecreateContainers
\* returns the first failure delivered to the channel; the later ones stay
\* in the channel, unread.
C14_ReturnsFirstFailure ==
    [][ReceivesOfSeveral =>
          /\ rc'.ret = rc.errChan[1]
          /\ rc'.ret # rc.errChan[Len(rc.errChan)]
          /\ rc'.errChan = Tail(rc.errChan)]_vars

\* Both nodes failed; the failure of the second node was delivered first and
\* is returned, the failure of the first node is left in the channel.
C14_Witness ==
    /\ rc.pc = "done"
    /\ Len(rc.nodes) = 2
    /\ call[1].res # NoErr /\ call[2].res # NoErr
    /\ rc.ret = WorkerError(rc.nodes[2], call[2].res)
    /\ rc.errChan = <<WorkerError(rc.nodes[1], call[1].res)>>

\* The failures of the deployments of the enumerated nodes, as sent.
Failures ==
    {WorkerError(rc.nodes[i], call[i].res) :
         i \in {k \in 1..Len(rc.nodes) : call[k].res # NoErr}}

\* A worker holding a failure can deliver it at once; the channel never
\* holds more than one error per node; when the barrier is passed every
\* worker is done and the channel holds every failure, each once; the
\* channel is read after the barrier only.
ChannelSafe ==
    /\ \A t \in Workers :
          (call[t].pc = "ret" /\ call[t].res # NoErr) => ENABLED WorkerSend(t)
    /\ Len(rc.errChan) <= Len(rc.nodes)
    /\ rc.pc = "recv" =>
          /\ rc.wg = 0
          /\ \A i \in 1..Len(rc.nodes) : call[i].pc = "done"
          /\ {rc.errChan[i] : i \in 1..Len(rc.errChan)} = Failures
          /\ Len(rc.errChan) = Cardinality(Failures)
    /\ rc.pc \in {"idle", "spawn"} => rc.ret = NoErr /\ ~rc.closed

\* C15: in RecreateContainers no worker blocks when it delivers its failure,
\* every failure is in the channel when the barrier is passed, the channel
\* is read after the barrier only, and RecreateContainers returns whenever
\* every deployment does, for any number of nodes and any failing nodes.
C15_NoBlockingAndTerminates == []ChannelSafe /\ <>(rc.pc = "done")

\* The barrier is passed with two nodes, both failed, and a full channel.
C15_Witness ==
    /\ rc.pc = "recv"
    /\ Len(rc.nodes) = 2
    /\ Len(rc.errChan) = 2

(***************************************************************************)
(* Properties of pullBsImage.                                              *)
(***************************************************************************)
\* The index of the last line 'Digest: <value>' of a pull output, 0 when
\* it has none.
LastDigest(out) ==
    LET D == {i \in 1..Len(out) : IsDigestLine(out[i])}
    IN  IF D = {} THEN 0 ELSE CHOOSE i \in D : \A j \in D : j <= i

\* C16: after a successful pull the record holds image@d when pinning
\* applies and the output has a Digest line, d being the value of the last
\* such line; otherwise it holds the reference unchanged.
C16_SavesLastDigest ==
    uPc = "pulled" =>
        LET l == LastDigest(uIn.out)
        IN  store.doc.Image =
                IF shouldPinBsImage(uIn.image) /\ l # 0
                THEN uIn.image \o <<"@">> \o Tail(uIn.out[l])
                ELSE uIn.image

(***************************************************************************)
(* Properties of the requests of one CreateContainer call.                 *)
(***************************************************************************)
\* The number of requests op among ops.
Count(ops, op) == Cardinality({i \in 1..Len(ops) : ops[i].op = op})

\* The request i of call t failed, was its last and gave the call's error.
TerminalAt(t, i) ==
    /\ i = Len(call[t].ops)
    /\ call[t].pc = "ret"
    /\ call[t].res = call[t].ops[i].err

\* C17: a call with relaunch true makes at most one removal and at most two
\* creations; a failed removal ends the call with that error, nothing being
\* created or started after it; a failed second creation, already-exists
\* included, ends the call with that error, nothing being removed or
\* created again.
C17_OneRemovalTwoCreates ==
    \A t \in Tasks :
        call[t].arg.relaunch =>
            LET ops == call[t].ops
            IN  /\ Count(ops, "remove") <= 1
                /\ Count(ops, "create") <= 2
                /\ \A i \in 1..Len(ops) :
                      (ops[i].op = "remove" /\ ops[i].err # NoErr) => TerminalAt(t, i)
                /\ \A i \in 2..Len(ops) :
                      (ops[i].op = "create" /\ ops[i].err # NoErr) => TerminalAt(t, i)

\* The second creation of a call found the name taken again, another call on
\* the node having created its container after the removal.
C17_Witness ==
    \E t \in Tasks :
        /\ call[t].arg.relaunch
        /\ call[t].pc = "ret"
        /\ call[t].res = ErrContainerAlreadyExists
        /\ call[t].ops = << [op |-> "create", err |-> ErrContainerAlreadyExists],
                            [op |-> "remove", err |-> NoErr],
                            [op |-> "create", err |-> ErrContainerAlreadyExists] >>

\* The call t returns the error of its StartContainer.
StartFails(t) ==
    /\ call[t].pc = "start"
    /\ call'[t].pc = "ret"
    /\ call'[t].res # NoErr

\* C18: when the creation succeeded and StartContainer fails the call
\* returns the error of StartContainer and makes no other request: the
\* container it created, if still on the node, stays there, not started,
\* and nothing is removed.
C18_StartFailureNoRollback ==
    [][\A t \in Tasks :
          /\ StartFails(t) =>
                LET n == call[t].arg.node
                IN  /\ call'[t].ops =
                          Append(call[t].ops, [op |-> "start", err |-> call'[t].res])
                    /\ cont' = cont
                    /\ (cont[n].present /\ cont[n].id = t) =>
                          cont'[n] = [present |-> TRUE, id |-> t, running |-> FALSE]
          /\ call[t].pc = "ret" => call'[t].ops = call[t].ops]_vars

\* A call created its container on a free node, could not start it and
\* returned: the container is on the node, not running.
C18_Witness ==
    \E t \in Tasks :
        /\ call[t].pc = "ret"
        /\ call[t].res = ErrStart
        /\ call[t].ops = << [op |-> "create", err |-> NoErr],
                            [op |-> "start", err |-> ErrStart] >>
        /\ cont[call[t].arg.node] = [present |-> TRUE, id |-> t, running |-> FALSE]

(***************************************************************************)
(* Properties of CreateContainer on the stored record.                     *)
(***************************************************************************)
\* C19: a call with relaunch false that ends with the already-exists error
\* leaves the stored image, token, global and pool entries as they were
\* before it.  Here the call is the only operation made, so the record
\* before it is the initial one: none.
C19_NoSideEffectOnRecord ==
    \A t \in Tasks :
        ( /\ Exists(t) /\ ~call[t].arg.relaunch
          /\ call[t].pc = "ret"
          /\ admin = 0
          /\ \A u \in Tasks \ {t} : call[u].pc = "idle" ) =>
            store = NoRecord

\* C19 as amended: a call with relaunch false writes the record before its
\* creation attempt only, and only the image (pullBsImage) and the token
\* (getToken); the creation that finds the name taken and the return write
\* nothing, and the global and pool entries are never changed by the call.
C19_WritesBeforeCreateOnly ==
    [][\A t \in Tasks :
          (call'[t] # call[t] /\ ~call'[t].arg.relaunch) =>
              /\ store'.doc.Envs = store.doc.Envs
              /\ store'.doc.Pools = store.doc.Pools
              /\ call[t].pc # "pull" => store'.doc.Image = store.doc.Image
              /\ call[t].pc # "upsert" => store'.doc.Token = store.doc.Token
              /\ call[t].pc \in {"create", "start"} => store' = store
              /\ call[t].pc = "create" /\ cont[call'[t].arg.node].present =>
                    /\ call'[t].pc = "ret"
                    /\ call'[t].res \in {ErrContainerAlreadyExists, ErrCreate}]_vars

\* The only call made found the name taken and returned: the record, absent
\* before, holds the image it saved and the token it stored, and no entry.
C19_Witness ==
    \E t \in Tasks :
        /\ Exists(t) /\ ~call[t].arg.relaunch
        /\ call[t].pc = "ret"
        /\ admin = 0
        /\ \A u \in Tasks \ {t} : call[u].pc = "idle"
        /\ store.exists
        /\ store.doc.Image # EmptyStr
        /\ store.doc.Token = TokenValue(1)
        /\ store.doc.Envs = <<>> /\ store.doc.Pools = <<>>

\* A reference that ends with '@' and a digest holding a ':'.
IsPinned(image) ==
    \E k \in 1..Len(image) : image[k] = "@" /\ IndexOf(image, ":", k + 1) # 0

\* The number of '@' of a reference.
Pins(image) == Cardinality({k \in 1..Len(image) : image[k] = "@"})

=============================================================================
